---- MODULE Spec2Model ----
(***************************************************************************)
(* A model of the DDPG agent of agents/actor_critic_agents/DDPG.py: the    *)
(* control loop step(), the learning calls critic_learn and actor_learn,   *)
(* and the critic target computation.  The services of Base_Agent and of   *)
(* Replay_Buffer that DDPG.py calls are modelled from the specification.   *)
(***************************************************************************)
EXTENDS Integers, Sequences, FiniteSets

VARIABLES
    hyperparameters,     \* config.hyperparameters, fixed at construction
    pc,                  \* the position of the thread in step()
    state,               \* self.state: the number of the current observation
    next_state,          \* self.next_state
    done,                \* self.done
    global_step_number,  \* self.global_step_number
    episode_number,      \* self.episode_number
    memory,              \* self.memory: the replay buffer, oldest first
    nets,                \* the parameters of the four networks
    i,                   \* the number of completed turns of the for loop of step()
    batch,               \* the experiences drawn by sample_experiences()
    critic_targets,      \* the local critic_targets of critic_learn
    grads,               \* the local grads of critic_learn / actor_learn: << g >>
    raised,              \* the exception that ended step(), or "none"
    log,                 \* history: the calls of the current iteration, in order
    nets_before,         \* history: nets at the start of the current update / call
    entry,               \* history: the counters when step() was entered
    tgt                  \* the arguments and result of the target computation

vars == << hyperparameters, pc, state, next_state, done, global_step_number,
           episode_number, memory, nets, i, batch, critic_targets, grads,
           raised, log, nets_before, entry, tgt >>

----------------------------------------------------------------------------
(* Bounds of the model. *)

MaxSteps == 4
MaxEpisodes == 3
MaxEpisodeLen == 3
MaxBatch == 2
MaxEvery == 2
MaxUpdates == 2
MaxBuffer == 3
PMax == 1
GDen == 2
RMax == 1
QMax == 1
TBatch == 2

----------------------------------------------------------------------------
(* Values. *)


Params == 0 .. PMax

\* A non-finite parameter or gradient: a value that is no parameter of the
\* grid and no finite gradient.
NaN == PMax + 2

NetNames == {"critic_local", "critic_target", "actor_local", "actor_target"}

None == [none |-> TRUE]

Configs ==
    [ batch_size : 1 .. MaxBatch,
      update_every_n_steps : 1 .. MaxEvery,
      learning_updates_per_learning_session : 1 .. MaxUpdates,
      buffer_size : {MaxBuffer},
      tau_num : {1},
      tau_den : {2},
      discount_rate_num : {GDen},
      discount_rate_den : {GDen} ]

\* The configurations under which the target computation is checked: every
\* discount rate 0/GDen .. GDen/GDen.
TargetConfigs ==
    [ batch_size : {1},
      update_every_n_steps : {1},
      learning_updates_per_learning_session : {1},
      buffer_size : {1},
      tau_num : {1},
      tau_den : {2},
      discount_rate_num : 0 .. GDen,
      discount_rate_den : {GDen} ]

\* The batches the target computation is checked on: aligned sequences of
\* rewards, next-state critic values and done flags (0 or 1).
TargetInputs ==
    UNION { [ rewards : [1 .. n -> 0 .. RMax],
              critic_targets_next : [1 .. n -> -QMax .. QMax],
              dones : [1 .. n -> {0, 1}],
              out : {<< >>} ] : n \in 1 .. TBatch }

----------------------------------------------------------------------------
(* Services of Base_Agent and Replay_Buffer, from the specification. *)

\* Replay_Buffer.add: append, evicting the oldest entry of a full buffer.
add_experience(mem, e) ==
    IF Len(mem) < hyperparameters.buffer_size
    THEN Append(mem, e)
    ELSE Append(Tail(mem), e)

\* Base_Agent.save_experience: the transition realised by this iteration.
\* id is the step that produced it (reward and action are not modelled here).
experience ==
    [ id |-> global_step_number, state |-> state,
      next_state |-> next_state, done |-> done ]

\* Replay_Buffer.sample: the batches of batch_size distinct stored transitions.
Batches(mem) ==
    { b \in SUBSET { mem[k] : k \in 1 .. Len(mem) } :
        Cardinality(b) = hyperparameters.batch_size }

\* Base_Agent.enough_experiences_to_learn_from
enough_experiences_to_learn_from ==
    Len(memory) >= hyperparameters.batch_size

\* Base_Agent.take_optimisation_step: one optimizer step on a parameter, along
\* the gradient g; a non-finite gradient makes the parameter non-finite.
take_optimisation_step(p, g) ==
    IF p = NaN \/ g = NaN THEN NaN ELSE p - g

\* Base_Agent.soft_update_of_target_network:
\* target <- tau * local + (1 - tau) * target, on the parameter grid.
soft_update_of_target_network(local, target) ==
    IF local = NaN \/ target = NaN
    THEN NaN
    ELSE (hyperparameters.tau_num * local
          + (hyperparameters.tau_den - hyperparameters.tau_num) * target
          + hyperparameters.tau_den - 1) \div hyperparameters.tau_den

\* The gradients value_and_grad can return for parameter p: finite ones (those
\* that keep the parameter on the grid) or, when the loss is not finite, NaN.
Grads(p, inputs) ==
    IF p = NaN \/ NaN \in inputs
    THEN {NaN}
    ELSE { g \in -1 .. 1 : p - g \in Params } \cup {NaN}

----------------------------------------------------------------------------
(* DDPG.py *)

\* faulty variant: the critic optimizer built over the target network's parameters
critic_optimizer_params_target == "critic_target"

\* __init__: the parameters each optimizer is built over.
critic_optimizer_params == "critic_local"

actor_optimizer_params == "actor_local"

\* faulty variant: the next-state values taken from the local networks
compute_critic_values_for_next_states_local ==
    [ actor |-> nets["actor_local"], critic |-> nets["critic_local"] ]

\* compute_critic_values_for_next_states: the value depends on the parameters
\* of the two networks it evaluates; it is modelled by those parameters.
compute_critic_values_for_next_states ==
    [ actor |-> nets["actor_target"], critic |-> nets["critic_target"] ]

\* faulty variant: the done flags not applied to the discounted term
compute_critic_values_for_current_states_no_mask(rewards, critic_targets_next, dones) ==
    [ k \in DOMAIN rewards |->
        hyperparameters.discount_rate_den * rewards[k]
        + hyperparameters.discount_rate_num * critic_targets_next[k] ]

\* compute_critic_values_for_current_states:
\*   rewards + discount_rate * critic_targets_next * (1.0 - dones)
\* elementwise; the result is in units of 1 / discount_rate_den.
compute_critic_values_for_current_states(rewards, critic_targets_next, dones) ==
    [ k \in DOMAIN rewards |->
        hyperparameters.discount_rate_den * rewards[k]
        + hyperparameters.discount_rate_num * critic_targets_next[k]
          * (1 - dones[k]) ]

\* faulty variant: either condition is enough
time_for_critic_and_actor_to_learn_either ==
    \/ enough_experiences_to_learn_from
    \/ global_step_number % hyperparameters.update_every_n_steps = 0

\* faulty variant: the buffer is not consulted
time_for_critic_and_actor_to_learn_unguarded ==
    global_step_number % hyperparameters.update_every_n_steps = 0

\* time_for_critic_and_actor_to_learn
time_for_critic_and_actor_to_learn ==
    /\ enough_experiences_to_learn_from
    /\ global_step_number % hyperparameters.update_every_n_steps = 0

\* faulty variant: one turn too many
range_has_next_inclusive(k) ==
    k <= hyperparameters.learning_updates_per_learning_session

\* step: for _ in range(learning_updates_per_learning_session)
range_has_next(k) ==
    k < hyperparameters.learning_updates_per_learning_session

\* faulty variant: while self.done
loop_continues_inverted == done

\* step: while not self.done
loop_continues == ~ done

\* faulty variant: the store left out of the loop body
after_learning_session_no_store == "advance"

\* step: the statement that follows the learning session (save_experience)
after_learning_session == "save_experience"

\* step: self.global_step_number += 1
advance_global_step_number(g) == g + 1

\* actor_learn: if self.done
learning_rate_update_due == done

Init ==
    /\ hyperparameters \in Configs
    /\ pc = "idle"
    /\ state = 0
    /\ next_state = None
    /\ done = FALSE
    /\ global_step_number = 0
    /\ episode_number = 0
    /\ memory = << >>
    /\ \E p \in Params : nets = [ n \in NetNames |-> p ]
    /\ i = 0
    /\ batch = {}
    /\ critic_targets = None
    /\ grads = << >>
    /\ raised = "none"
    /\ log = << >>
    /\ nets_before = nets
    /\ entry = None
    /\ tgt = None

\* Base_Agent.reset_game, between two calls of step()
reset_game ==
    /\ pc = "returned"
    /\ raised = "none"
    /\ pc' = "idle"
    /\ state' = 0
    /\ next_state' = None
    /\ done' = FALSE
    /\ UNCHANGED << hyperparameters, global_step_number, episode_number,
                    memory, nets, i, batch, critic_targets, grads, raised, log,
                    nets_before, entry, tgt >>

\* the caller enters step()
step_call ==
    /\ pc \in {"idle", "returned"}
    /\ raised = "none"
    /\ episode_number < MaxEpisodes
    /\ global_step_number + MaxEpisodeLen <= MaxSteps
    /\ pc' = "while"
    /\ entry' = [ global_step_number |-> global_step_number,
                  episode_number |-> episode_number,
                  iterations |-> 0 ]
    /\ log' = << >>
    /\ UNCHANGED << hyperparameters, state, next_state, done,
                    global_step_number, episode_number, memory, nets, i, batch,
                    critic_targets, grads, raised, nets_before, tgt >>

\* step: while not self.done
while_test ==
    /\ pc = "while"
    /\ IF loop_continues
       THEN /\ pc' = "pick_action"
            /\ log' = << >>
       ELSE /\ pc' = "episode_end"
            /\ UNCHANGED log
    /\ UNCHANGED << hyperparameters, state, next_state, done,
                    global_step_number, episode_number, memory, nets, i, batch,
                    critic_targets, grads, raised, nets_before, entry, tgt >>

\* step: self.action = self.pick_action()
pick_action ==
    /\ pc = "pick_action"
    /\ pc' = "conduct_action"
    /\ log' = Append(log, "pick_action")
    /\ UNCHANGED << hyperparameters, state, next_state, done,
                    global_step_number, episode_number, memory, nets, i, batch,
                    critic_targets, grads, raised, nets_before, entry, tgt >>

\* step: self.conduct_action(self.action); the environment ends the episode
\* within MaxEpisodeLen steps
conduct_action ==
    /\ pc = "conduct_action"
    /\ next_state' = state + 1
    /\ \E d \in BOOLEAN :
         /\ state + 1 >= MaxEpisodeLen => d
         /\ done' = d
    /\ pc' = "time_to_learn"
    /\ log' = Append(log, "conduct_action")
    /\ UNCHANGED << hyperparameters, state, global_step_number, episode_number,
                    memory, nets, i, batch, critic_targets, grads, raised,
                    nets_before, entry, tgt >>

\* step: if self.time_for_critic_and_actor_to_learn()
time_to_learn ==
    /\ pc = "time_to_learn"
    /\ IF time_for_critic_and_actor_to_learn
       THEN pc' = "for"
       ELSE pc' = after_learning_session
    /\ i' = 0
    /\ UNCHANGED << hyperparameters, state, next_state, done,
                    global_step_number, episode_number, memory, nets, batch,
                    critic_targets, grads, raised, log, nets_before, entry,
                    tgt >>

\* step: for _ in range(...)
for_test ==
    /\ pc = "for"
    /\ IF range_has_next(i)
       THEN pc' = "sample_experiences"
       ELSE pc' = after_learning_session
    /\ batch' = {}
    /\ critic_targets' = None
    /\ grads' = << >>
    /\ nets_before' = nets
    /\ UNCHANGED << hyperparameters, state, next_state, done,
                    global_step_number, episode_number, memory, nets, i,
                    raised, log, entry, tgt >>

\* step: states, actions, rewards, next_states, dones = self.sample_experiences()
sample_experiences ==
    /\ pc = "sample_experiences"
    /\ IF Len(memory) < hyperparameters.batch_size
       THEN /\ raised' = "InsufficientDataError"
            /\ pc' = "returned"
            /\ UNCHANGED << batch, log, nets_before >>
       ELSE /\ batch' \in Batches(memory)
            /\ pc' = "compute_critic_targets"
            /\ log' = Append(log, "sample_experiences")
            /\ nets_before' = nets
            /\ UNCHANGED raised
    /\ UNCHANGED << hyperparameters, state, next_state, done,
                    global_step_number, episode_number, memory, nets, i,
                    critic_targets, grads, entry, tgt >>

\* critic_learn: critic_targets = self.compute_critic_targets(...)
compute_critic_targets ==
    /\ pc = "compute_critic_targets"
    /\ critic_targets' = compute_critic_values_for_next_states
    /\ pc' = "critic_grad_fn"
    /\ log' = Append(log, "compute_critic_targets")
    /\ UNCHANGED << hyperparameters, state, next_state, done,
                    global_step_number, episode_number, memory, nets, i, batch,
                    grads, raised, nets_before, entry, tgt >>

\* critic_learn: _, grads = self.critic_grad_fn(states, actions, critic_targets)
critic_grad_fn ==
    /\ pc = "critic_grad_fn"
    /\ \E g \in Grads(nets["critic_local"],
                     {critic_targets.actor, critic_targets.critic}) :
         grads' = << g >>
    /\ pc' = "critic_optimisation_step"
    /\ log' = Append(log, "critic_grad_fn")
    /\ UNCHANGED << hyperparameters, state, next_state, done,
                    global_step_number, episode_number, memory, nets, i, batch,
                    critic_targets, raised, nets_before, entry, tgt >>

\* critic_learn: self.take_optimisation_step(self.critic_optimizer, grads, ...)
critic_optimisation_step ==
    /\ pc = "critic_optimisation_step"
    /\ nets' = [ nets EXCEPT ![critic_optimizer_params] =
                   take_optimisation_step(@, grads[1]) ]
    /\ pc' = "critic_soft_update"
    /\ log' = Append(log, "critic_optimisation_step")
    /\ UNCHANGED << hyperparameters, state, next_state, done,
                    global_step_number, episode_number, memory, i, batch,
                    critic_targets, grads, raised, nets_before, entry, tgt >>

\* critic_learn: self.soft_update_of_target_network(critic_local, critic_target, tau)
critic_soft_update ==
    /\ pc = "critic_soft_update"
    /\ nets' = [ nets EXCEPT !["critic_target"] =
                   soft_update_of_target_network(nets["critic_local"], @) ]
    /\ pc' = "actor_learn"
    /\ log' = Append(log, "critic_soft_update")
    /\ UNCHANGED << hyperparameters, state, next_state, done,
                    global_step_number, episode_number, memory, i, batch,
                    critic_targets, grads, raised, nets_before, entry, tgt >>

\* actor_learn: if self.done: self.update_learning_rate(...)
actor_learn ==
    /\ pc = "actor_learn"
    /\ IF learning_rate_update_due
       THEN log' = Append(log, "update_learning_rate")
       ELSE UNCHANGED log
    /\ nets_before' = nets
    /\ grads' = << >>
    /\ pc' = "actor_grad_fn"
    /\ UNCHANGED << hyperparameters, state, next_state, done,
                    global_step_number, episode_number, memory, nets, i, batch,
                    critic_targets, raised, entry, tgt >>

\* actor_learn: _, grads = self.actor_grad_fn(states)
actor_grad_fn ==
    /\ pc = "actor_grad_fn"
    /\ \E g \in Grads(nets["actor_local"], {nets["critic_local"]}) :
         grads' = << g >>
    /\ pc' = "actor_optimisation_step"
    /\ log' = Append(log, "actor_grad_fn")
    /\ UNCHANGED << hyperparameters, state, next_state, done,
                    global_step_number, episode_number, memory, nets, i, batch,
                    critic_targets, raised, nets_before, entry, tgt >>

\* actor_learn: self.take_optimisation_step(self.actor_optimizer, grads, ...)
actor_optimisation_step ==
    /\ pc = "actor_optimisation_step"
    /\ nets' = [ nets EXCEPT ![actor_optimizer_params] =
                   take_optimisation_step(@, grads[1]) ]
    /\ pc' = "actor_soft_update"
    /\ log' = Append(log, "actor_optimisation_step")
    /\ UNCHANGED << hyperparameters, state, next_state, done,
                    global_step_number, episode_number, memory, i, batch,
                    critic_targets, grads, raised, nets_before, entry, tgt >>

\* actor_learn: self.soft_update_of_target_network(actor_local, actor_target, tau)
\* and the end of one turn of the for loop
actor_soft_update ==
    /\ pc = "actor_soft_update"
    /\ nets' = [ nets EXCEPT !["actor_target"] =
                   soft_update_of_target_network(nets["actor_local"], @) ]
    /\ i' = i + 1
    /\ pc' = "for"
    /\ log' = Append(log, "actor_soft_update")
    /\ UNCHANGED << hyperparameters, state, next_state, done,
                    global_step_number, episode_number, memory, batch,
                    critic_targets, grads, raised, nets_before, entry, tgt >>

\* step: self.save_experience()
save_experience ==
    /\ pc = "save_experience"
    /\ memory' = add_experience(memory, experience)
    /\ pc' = "advance"
    /\ log' = Append(log, "save_experience")
    /\ UNCHANGED << hyperparameters, state, next_state, done,
                    global_step_number, episode_number, nets, i, batch,
                    critic_targets, grads, raised, nets_before, entry, tgt >>

\* step: self.state = self.next_state; self.global_step_number += 1
advance ==
    /\ pc = "advance"
    /\ state' = next_state
    /\ global_step_number' = advance_global_step_number(global_step_number)
    /\ entry' = [ entry EXCEPT !.iterations = @ + 1 ]
    /\ pc' = "while"
    /\ UNCHANGED << hyperparameters, next_state, done, episode_number, memory,
                    nets, i, batch, critic_targets, grads, raised, log,
                    nets_before, tgt >>

\* step: self.episode_number += 1, and the return to the caller
episode_end ==
    /\ pc = "episode_end"
    /\ episode_number' = episode_number + 1
    /\ pc' = "returned"
    /\ UNCHANGED << hyperparameters, state, next_state, done,
                    global_step_number, memory, nets, i, batch, critic_targets,
                    grads, raised, log, nets_before, entry, tgt >>

Next ==
    \/ reset_game
    \/ step_call
    \/ while_test
    \/ pick_action
    \/ conduct_action
    \/ time_to_learn
    \/ for_test
    \/ sample_experiences
    \/ compute_critic_targets
    \/ critic_grad_fn
    \/ critic_optimisation_step
    \/ critic_soft_update
    \/ actor_learn
    \/ actor_grad_fn
    \/ actor_optimisation_step
    \/ actor_soft_update
    \/ save_experience
    \/ advance
    \/ episode_end

Spec == Init /\ [][Next]_vars

\* step() is sequential code: it takes its next step whenever it has one.
LiveSpec == Init /\ [][Next]_vars /\ WF_vars(Next)

----------------------------------------------------------------------------
(* The target computation alone, on every input of TargetInputs. *)

TargetsInit ==
    /\ hyperparameters \in TargetConfigs
    /\ pc = "idle"
    /\ state = 0
    /\ next_state = None
    /\ done = FALSE
    /\ global_step_number = 0
    /\ episode_number = 0
    /\ memory = << >>
    /\ nets = [ n \in NetNames |-> 0 ]
    /\ i = 0
    /\ batch = {}
    /\ critic_targets = None
    /\ grads = << >>
    /\ raised = "none"
    /\ log = << >>
    /\ nets_before = nets
    /\ entry = None
    /\ tgt \in TargetInputs

\* a call of compute_critic_values_for_current_states
compute_critic_values_call ==
    /\ tgt.out = << >>
    /\ tgt' = [ tgt EXCEPT !.out =
                  compute_critic_values_for_current_states(
                      tgt.rewards, tgt.critic_targets_next, tgt.dones) ]
    /\ UNCHANGED << hyperparameters, pc, state, next_state, done,
                    global_step_number, episode_number, memory, nets, i, batch,
                    critic_targets, grads, raised, log, nets_before, entry >>

TargetsNext == compute_critic_values_call

TargetsSpec == TargetsInit /\ [][TargetsNext]_vars

----------------------------------------------------------------------------
(* Vocabulary of the properties. *)

\* The number of calls of e in the current iteration.
Count(e) == Cardinality({ k \in DOMAIN log : log[k] = e })

\* The calls of one learning update, in the order of the source.
UpdateCalls ==
    << "sample_experiences", "compute_critic_targets", "critic_grad_fn",
       "critic_optimisation_step", "critic_soft_update", "actor_grad_fn",
       "actor_optimisation_step", "actor_soft_update" >>

IsUpdateCall(e) == \E k \in DOMAIN UpdateCalls : UpdateCalls[k] = e

\* The learning calls of the current iteration.
LearningLog == SelectSeq(log, IsUpdateCall)

\* The positions inside a learning update (between its sample and its end).
InUpdate ==
    pc \in { "compute_critic_targets", "critic_grad_fn",
             "critic_optimisation_step", "critic_soft_update", "actor_learn",
             "actor_grad_fn", "actor_optimisation_step", "actor_soft_update" }

\* The positions inside a learning session.
InSession == InUpdate \/ pc \in {"for", "sample_experiences"}

\* The learning trigger as the specification states it.
TriggerHolds ==
    /\ Len(memory) >= hyperparameters.batch_size
    /\ global_step_number % hyperparameters.update_every_n_steps = 0

UpdatesPerSession == hyperparameters.learning_updates_per_learning_session

----------------------------------------------------------------------------
(* C1: an iteration runs a learning session if and only if, when the trigger
   is tested, the buffer holds at least batch_size transitions and
   global_step_number mod update_every_n_steps = 0.  The buffer and the
   counter do not change from the test to the store, so: inside a session
   the trigger holds, and when the iteration reaches the store it has made
   learning calls exactly if the trigger holds (and none at all otherwise). *)
C1_LearnIffTrigger ==
    /\ InSession => TriggerHolds
    /\ pc = "save_experience" =>
         /\ TriggerHolds <=> Len(LearningLog) > 0
         /\ ~ TriggerHolds => log = << "pick_action", "conduct_action" >>

\* an iteration whose trigger held reaches the store after its session, under
\* a configuration that does not learn at every step
C1_Witness ==
    /\ pc = "save_experience"
    /\ TriggerHolds
    /\ Count("actor_soft_update") > 0
    /\ hyperparameters.update_every_n_steps > 1

\* The calls of the current iteration follow the pattern of the updates, and
\* their numbers are those of complete updates.
C2_Calls ==
    /\ LET calls == LearningLog
       IN  \A k \in DOMAIN calls :
             calls[k] = UpdateCalls[((k - 1) % Len(UpdateCalls)) + 1]
    /\ ~ InUpdate =>
         /\ Count("critic_soft_update") = Count("actor_soft_update")
         /\ Count("sample_experiences") = Count("actor_soft_update")
    /\ InUpdate =>
         /\ Count("sample_experiences") = i + 1
         /\ Count("actor_soft_update") = i
         /\ batch \subseteq { memory[k] : k \in DOMAIN memory }
         /\ Cardinality(batch) = hyperparameters.batch_size
    /\ (pc \in {"save_experience", "advance"} /\ Len(LearningLog) > 0) =>
         /\ Count("sample_experiences") = UpdatesPerSession
         /\ Count("critic_soft_update") = UpdatesPerSession
         /\ Count("actor_soft_update") = UpdatesPerSession

(* C2: a learning session performs exactly
   learning_updates_per_learning_session updates, each one a fresh
   sample_experiences() followed by one critic_learn and one actor_learn on
   the batch drawn; outside an update the completed critic_learn and
   actor_learn calls are equal in number. *)
C2_SessionUpdates ==
    /\ [] C2_Calls
    /\ [][ (InUpdate /\ InUpdate') => batch' = batch ]_vars

\* a session of two updates has ended
C2_Witness ==
    /\ pc = "save_experience"
    /\ UpdatesPerSession = 2
    /\ Count("actor_soft_update") = 2

\* The calls of an update that change parameters or compute the targets.
IsEffect(e) ==
    e \in { "compute_critic_targets", "critic_optimisation_step",
            "critic_soft_update", "actor_optimisation_step",
            "actor_soft_update" }

EffectOrder ==
    << "compute_critic_targets", "critic_optimisation_step",
       "critic_soft_update", "actor_optimisation_step", "actor_soft_update" >>

EffectLog == SelectSeq(log, IsEffect)

TargetsAtStart ==
    [ actor |-> nets_before["actor_target"],
      critic |-> nets_before["critic_target"] ]

(* C3: in every learning update the effects come in the order: critic
   targets (from actor_target and critic_target as they were when the update
   started), optimizer step on critic_local, soft update of critic_target,
   optimizer step on actor_local, soft update of actor_target.  No network
   changes between the start of the update and the target computation, and
   critic_target is unchanged until the critic_local optimizer step is
   done. *)
C3_UpdateOrder ==
    /\ LET effects == EffectLog
       IN  \A k \in DOMAIN effects :
             effects[k] = EffectOrder[((k - 1) % Len(EffectOrder)) + 1]
    /\ pc = "compute_critic_targets" => nets = nets_before
    /\ pc \in {"critic_grad_fn", "critic_optimisation_step"} =>
         /\ critic_targets = TargetsAtStart
         /\ nets = nets_before
    /\ pc = "critic_soft_update" =>
         /\ critic_targets = TargetsAtStart
         /\ \A n \in NetNames \ {"critic_local"} : nets[n] = nets_before[n]
    /\ pc \in {"actor_grad_fn", "actor_optimisation_step"} =>
         nets = nets_before
    /\ pc = "actor_soft_update" =>
         \A n \in NetNames \ {"actor_local"} : nets[n] = nets_before[n]

\* the targets of an update have been computed while the target networks
\* differ from the local ones, and the critic's optimizer step has been made
C3_Witness ==
    /\ pc = "critic_soft_update"
    /\ nets_before["critic_target"] # nets_before["critic_local"]
    /\ nets_before["actor_target"] # nets_before["actor_local"]
    /\ nets["critic_local"] # nets_before["critic_local"]
    /\ critic_targets = TargetsAtStart

(* C5: sample_experiences() is never called while the buffer holds fewer
   than batch_size transitions, at the first or at a later draw of a
   session: InsufficientDataError is never raised. *)
C5_SampleGuarded ==
    /\ raised = "none"
    /\ pc = "sample_experiences" =>
         Len(memory) >= hyperparameters.batch_size
    /\ batch # {} => Cardinality(batch) = hyperparameters.batch_size

\* the second draw of a session, from a buffer holding just batch_size
C5_Witness ==
    /\ pc = "sample_experiences"
    /\ i = 1
    /\ Len(memory) = hyperparameters.batch_size
    /\ hyperparameters.batch_size > 1

BeforeStore ==
    InSession \/ pc \in { "pick_action", "conduct_action", "time_to_learn",
                          "save_experience" }

(* C6: every iteration stores exactly one transition, whether or not it
   learned and also when done is observed; the store comes after the
   learning session and before state := next_state and the increment of
   global_step_number, so no batch of an iteration holds the transition of
   that iteration. *)
C6_StoreOncePerIteration ==
    /\ BeforeStore =>
         /\ Count("save_experience") = 0
         /\ \A k \in DOMAIN memory : memory[k].id < global_step_number
    /\ \A t \in batch : t.id < global_step_number
    /\ pc = "advance" =>
         /\ Count("save_experience") = 1
         /\ log[Len(log)] = "save_experience"
         /\ memory[Len(memory)] =
              [ id |-> global_step_number, state |-> state,
                next_state |-> next_state, done |-> done ]
         /\ next_state = state + 1
    /\ (pc = "while" /\ entry.iterations > 0) =>
         /\ Count("save_experience") = 1
         /\ memory[Len(memory)].id = global_step_number - 1
         /\ memory[Len(memory)].next_state = state

\* the iteration that observed done has learned and then stored, evicting
C6_Witness ==
    /\ pc = "advance"
    /\ done
    /\ Count("actor_soft_update") > 0
    /\ global_step_number >= hyperparameters.buffer_size
    /\ Count("save_experience") = 1

TargetOf(n) == IF n = "critic_local" THEN "critic_target" ELSE "actor_target"

SoftUpdatePc(n) ==
    IF n = "critic_local" THEN "critic_soft_update" ELSE "actor_soft_update"

(* C7: the targets start as copies of their local networks; afterwards the
   parameters of a target network change only in the soft update of that
   target, to the blend of its own local network and itself; the optimizer
   steps leave both targets as they are, and outside the learning calls no
   network changes. *)
C7_TargetsOnlySoftUpdated ==
    /\ \A n \in {"critic_local", "actor_local"} : nets[TargetOf(n)] = nets[n]
    /\ [][ /\ \A n \in {"critic_local", "actor_local"} :
                nets'[TargetOf(n)] # nets[TargetOf(n)] =>
                  /\ pc = SoftUpdatePc(n)
                  /\ nets'[TargetOf(n)] =
                       soft_update_of_target_network(nets[n], nets[TargetOf(n)])
           /\ pc \in {"critic_optimisation_step", "actor_optimisation_step"} =>
                /\ nets'["critic_target"] = nets["critic_target"]
                /\ nets'["actor_target"] = nets["actor_target"]
           /\ pc \notin { "critic_optimisation_step", "critic_soft_update",
                          "actor_optimisation_step", "actor_soft_update" } =>
                nets' = nets
         ]_vars

\* an optimizer step has moved critic_local away from critic_target, and the
\* soft update has then moved critic_target
C7_Witness ==
    /\ pc = "actor_learn"
    /\ nets_before["critic_target"] = nets_before["critic_local"]
    /\ nets["critic_target"] # nets_before["critic_target"]
    /\ nets["critic_target"] # NaN

InStep == pc \notin {"idle", "returned"}

(* C10: a call of step() iterates until done is observed and then increments
   episode_number once: it returns (the environment ends every episode),
   and on return done holds, episode_number has grown by one and
   global_step_number by the number of iterations made, which is zero when
   done held on entry. *)
C10_StepTerminates ==
    /\ [](( pc = "returned" /\ raised = "none" ) =>
            /\ done
            /\ episode_number = entry.episode_number + 1
            /\ global_step_number =
                 entry.global_step_number + entry.iterations)
    /\ [](InStep => episode_number = entry.episode_number)
    /\ [](( pc = "while" /\ done /\ entry.iterations = 0 ) =>
            global_step_number = entry.global_step_number)
    /\ (pc = "while") ~> (pc = "returned")

\* step() has returned from a call of several iterations
C10_Witness ==
    /\ pc = "returned"
    /\ entry.iterations > 1
    /\ episode_number = entry.episode_number + 1
    /\ entry.episode_number > 0

(* C4: for a transition with dones = 1 the critic target is its reward, for
   every discount rate and every next-state value; for dones = 0 it is
   reward + discount_rate * q_next (both sides in units of
   1 / discount_rate_den). *)
C4_TerminalTarget ==
    tgt.out # << >> =>
      \A k \in DOMAIN tgt.out :
        /\ tgt.dones[k] = 1 =>
             tgt.out[k] = hyperparameters.discount_rate_den * tgt.rewards[k]
        /\ tgt.dones[k] = 0 =>
             tgt.out[k] = hyperparameters.discount_rate_den * tgt.rewards[k]
                          + hyperparameters.discount_rate_num
                            * tgt.critic_targets_next[k]

\* a batch with a terminal transition whose discounted next value is not 0,
\* next to a non-terminal one
C4_Witness ==
    /\ tgt.out # << >>
    /\ hyperparameters.discount_rate_num > 0
    /\ \E k \in DOMAIN tgt.out :
         tgt.dones[k] = 1 /\ tgt.critic_targets_next[k] # 0
    /\ \E k \in DOMAIN tgt.out :
         tgt.dones[k] = 0 /\ tgt.critic_targets_next[k] # 0

(* C8: at every episode end the actor optimizer's learning rate is set: the
   iteration that observes done calls update_learning_rate, before the
   actor's gradient step, and an iteration with done false never calls
   it. *)
C8_LearningRateAtEpisodeEnd ==
    /\ pc = "advance" => (done <=> Count("update_learning_rate") > 0)
    /\ \A k \in DOMAIN log :
         (log[k] = "update_learning_rate" /\ k < Len(log)) =>
           log[k + 1] = "actor_grad_fn"

(* C9: when the gradient of a learning call is not finite, the optimizer
   step of that call is skipped and the call changes no parameter of any of
   the four networks. *)
C9_NonFiniteStepSkipped ==
    ( /\ grads = << NaN >>
      /\ pc \in { "critic_soft_update", "actor_learn",
                  "actor_soft_update" } )
      => nets = nets_before

====
